---- MODULE Spec2Model ----
(***************************************************************************)
(* FloosakClient (src/src/client.ts): a client object holding a mutable   *)
(* bearer token, an axios instance with a request interceptor, and five   *)
(* async remote operations.  Every invocation is a small process: the     *)
(* synchronous prefix of the async method (auth guard, axios.post), the   *)
(* request interceptor that axios runs later on its promise chain, and    *)
(* the continuation after `await` once the transport settles.  JavaScript *)
(* is single threaded, so each of these steps is atomic, and steps of     *)
(* different invocations interleave freely.                               *)
(***************************************************************************)
EXTENDS Integers, Sequences, FiniteSets, TLC

\* Number of invocations made on the client in one behaviour.
MaxCalls == 2

\* JavaScript `undefined` / an absent property.  Not a member of any string set below.
Undefined == "<undefined>"

\* String values a caller can pass as config.token (the empty string is a string).
CtorTokens == {"", "t1"}

\* String values the server can put in the `key` field of a verify response.
ServerKeys == {"", "t1", "t2"}

\* Errors the transport (axios) can reject the post() promise with.
TransportErrors == {"NetworkError", "HttpStatusError", "MalformedJsonError"}

NotAuthenticated ==
  "Client is not authenticated. Please call requestAuthKey() and verifyAuthKey() first, or initialize the client with a valid token."

NoError == "<none>"

PaymentOps == {"purchaseRequest", "purchaseConfirm", "refund"}

AuthOps == {"requestAuthKey", "verifyAuthKey"}

\* The constructor arguments used in the README.
Phone == "967705111013"

ShortCode == "777715"

BaseUrl == "https://api.your-floosak-provider.com"

\* Caller-supplied payloads, one record shape per operation (types.ts shapes).
VerifyKeyPayloads ==
  {[request_id |-> "r1", otp |-> "123456"], [request_id |-> "r2", otp |-> "654321"]}

PurchaseRequestPayloads ==
  {[source_wallet_id |-> 144, request_id |-> "r1", target_phone |-> "967777841622",
    amount |-> 100, purpose |-> "x"]}

PurchaseConfirmPayloads == {[purchase_id |-> 7, otp |-> 123456]}

RefundPayloads == {[transaction_id |-> 267316, request_id |-> "r3", amount |-> 100]}

\* Response bodies the transport can resolve with: JSON null, a JSON object with or
\* without a `key` property, or a non-JSON text body handed through as a string.
ResponseData ==
  {[body |-> "null", key |-> Undefined], [body |-> "text", key |-> Undefined],
   [body |-> "object", key |-> Undefined]}
    \cup {[body |-> "object", key |-> k] : k \in ServerKeys}

NoResponse == [body |-> "<none>", key |-> Undefined]

\* requestAuthKey() takes no argument.
NoArg == [none |-> TRUE]

VARIABLES
  config,        \* this.config: baseUrl, phone, shortCode
  givenToken,    \* the token property of the constructor argument
  token,         \* this.token
  calls,         \* the invocations made so far, in the order they were started
  completed,     \* ids of the invocations whose post() resolved, in completion order
  requestCount   \* number of requests handed to the network

vars == <<config, givenToken, token, calls, completed, requestCount>>

\* JavaScript truthiness of a string-or-undefined value.
Truthy(v) == v # Undefined /\ v # ""

\* The template literal `Bearer ${this.token}`.
Bearer(t) == "Bearer " \o t

\* Headers of axios.create(...): the instance defaults, no Authorization.
defaultHeaders ==
  [ContentType |-> "application/json", Accept |-> "application/json",
   xChannel |-> "merchant", Authorization |-> Undefined]

\* Mutant of interceptor: the header is built from the token captured at construction.
interceptor_capturedAtConstruction(tok, headers) ==
  IF Truthy(givenToken)
    THEN [headers EXCEPT !.Authorization = Bearer(givenToken)]
    ELSE headers

\* The request interceptor: adds Authorization when this.token is truthy.
interceptor(tok, headers) ==
  IF Truthy(tok) THEN [headers EXCEPT !.Authorization = Bearer(tok)] ELSE headers

\* Mutant of ensureAuthenticated: the guard never throws.
ensureAuthenticated_skipped(tok) == TRUE

\* ensureAuthenticated(): TRUE when it returns, FALSE when it throws.
ensureAuthenticated(tok) == Truthy(tok)

\* getToken()
getToken == token

\* response.data && response.data.key
dataKey(data) == IF data.body = "object" THEN data.key ELSE Undefined

\* Mutant of storeKey: a response without a key clears the token.
storeKey_clearsOnMissing(tok, data) ==
  IF Truthy(dataKey(data)) THEN dataKey(data) ELSE Undefined

\* Mutant of storeKey: the key is stored only while no token is held.
storeKey_firstWriteWins(tok, data) ==
  IF Truthy(dataKey(data)) /\ ~Truthy(tok) THEN dataKey(data) ELSE tok

\* Mutant of storeKey: `this.token = response.data.key` without the test.
storeKey_unconditional(tok, data) == dataKey(data)

\* Mutant of storeKey: the test is `'key' in response.data`, so an empty key is stored.
storeKey_anyKeyField(tok, data) ==
  IF dataKey(data) # Undefined THEN dataKey(data) ELSE tok

\* verifyAuthKey's continuation: the token after a response with body `data`.
storeKey(tok, data) == IF Truthy(dataKey(data)) THEN dataKey(data) ELSE tok

\* The fixed path each operation posts to.
path(op) ==
  CASE op = "requestAuthKey" -> "/api/v1/request/key"
    [] op = "verifyAuthKey" -> "/api/v1/verify/key"
    [] op = "purchaseRequest" -> "/api/v1/merchant/p2mcl"
    [] op = "purchaseConfirm" -> "/api/v1/merchant/p2mcl/confirm"
    [] op = "refund" -> "/api/v1/merchant/p2mcl/refund"

\* A fresh invocation record: axiosInstance.post(url, body) has been called and the
\* request waits for the interceptor.
posted(op, arg, body) ==
  [op |-> op, arg |-> arg, pc |-> "pending", method |-> "POST", url |-> path(op),
   body |-> body, headers |-> defaultHeaders, attempts |-> 0, response |-> NoResponse,
   failure |-> NoError, result |-> NoResponse, error |-> NoError]

\* An invocation whose synchronous prefix threw `err` before axios was called.
thrown(op, arg, err) ==
  [op |-> op, arg |-> arg, pc |-> "rejected", method |-> "<none>", url |-> "<none>",
   body |-> NoArg, headers |-> defaultHeaders, attempts |-> 0, response |-> NoResponse,
   failure |-> NoError, result |-> NoResponse, error |-> err]

\* The body of a payment method up to its await: the guard, then post(path, payload).
guarded(tok, op, payload) ==
  IF ensureAuthenticated(tok)
    THEN posted(op, payload, payload)
    ELSE thrown(op, payload, NotAuthenticated)

\* Mutant of constructorToken: the constructor forgets config.token.
constructorToken_dropped(given) == Undefined

\* this.token = config.token
constructorToken(given) == given

\* new FloosakClient({baseUrl, phone, shortCode, token})
Init ==
  /\ config = [baseUrl |-> BaseUrl, phone |-> Phone, shortCode |-> ShortCode]
  /\ givenToken \in {Undefined} \cup CtorTokens
  /\ token = constructorToken(givenToken)
  /\ calls = <<>>
  /\ completed = <<>>
  /\ requestCount = 0

CanStart == Len(calls) < MaxCalls

\* Mutant of requestAuthKey: the method starts with ensureAuthenticated().
requestAuthKey_guarded ==
  /\ CanStart
  /\ calls' = Append(calls,
       IF ensureAuthenticated(token)
         THEN posted("requestAuthKey", NoArg,
                     [phone |-> config.phone, short_code |-> config.shortCode])
         ELSE thrown("requestAuthKey", NoArg, NotAuthenticated))
  /\ UNCHANGED <<config, givenToken, token, completed, requestCount>>

requestAuthKey ==
  /\ CanStart
  /\ calls' = Append(calls,
       posted("requestAuthKey", NoArg,
              [phone |-> config.phone, short_code |-> config.shortCode]))
  /\ UNCHANGED <<config, givenToken, token, completed, requestCount>>

verifyAuthKey ==
  /\ CanStart
  /\ \E payload \in VerifyKeyPayloads :
       calls' = Append(calls, posted("verifyAuthKey", payload, payload))
  /\ UNCHANGED <<config, givenToken, token, completed, requestCount>>

purchaseRequest ==
  /\ CanStart
  /\ \E payload \in PurchaseRequestPayloads :
       calls' = Append(calls, guarded(token, "purchaseRequest", payload))
  /\ UNCHANGED <<config, givenToken, token, completed, requestCount>>

purchaseConfirm ==
  /\ CanStart
  /\ \E payload \in PurchaseConfirmPayloads :
       calls' = Append(calls, guarded(token, "purchaseConfirm", payload))
  /\ UNCHANGED <<config, givenToken, token, completed, requestCount>>

refund ==
  /\ CanStart
  /\ \E payload \in RefundPayloads :
       calls' = Append(calls, guarded(token, "refund", payload))
  /\ UNCHANGED <<config, givenToken, token, completed, requestCount>>

\* axios runs the request interceptor of a pending request and dispatches it.
send(c, tok) ==
  [c EXCEPT !.pc = "sent", !.headers = interceptor(tok, c.headers),
            !.attempts = c.attempts + 1]

Dispatch ==
  \E i \in 1..Len(calls) :
    /\ calls[i].pc = "pending"
    /\ calls' = [calls EXCEPT ![i] = send(calls[i], token)]
    /\ requestCount' = requestCount + 1
    /\ UNCHANGED <<config, givenToken, token, completed>>

\* The continuation of an invocation after its post() resolved with `data`:
\* `return response.data`.
resolved(c, data) ==
  [c EXCEPT !.pc = "resolved", !.response = data, !.result = data]

\* Mutant of tokenAfter: verifyAuthKey returns the response without storing the key.
tokenAfter_neverStores(op, tok, data) == tok

\* The token after the continuation of operation `op` ran on `data`.
tokenAfter(op, tok, data) == IF op = "verifyAuthKey" THEN storeKey(tok, data) ELSE tok

Respond ==
  \E i \in 1..Len(calls), data \in ResponseData :
    /\ calls[i].pc = "sent"
    /\ calls[i].op # "verifyAuthKey" => data.key = Undefined
    /\ calls' = [calls EXCEPT ![i] = resolved(calls[i], data)]
    /\ token' = tokenAfter(calls[i].op, token, data)
    /\ completed' = Append(completed, i)
    /\ UNCHANGED <<config, givenToken, requestCount>>

\* Mutant of rejected: a failed request is posted once more before giving up.
rejected_retries(c, err) ==
  IF c.attempts < 2
    THEN [c EXCEPT !.pc = "pending"]
    ELSE [c EXCEPT !.pc = "rejected", !.failure = err, !.error = err]

\* The invocation after its post() rejected with `err`: nothing catches it.
rejected(c, err) == [c EXCEPT !.pc = "rejected", !.failure = err, !.error = err]

Fail ==
  \E i \in 1..Len(calls), err \in TransportErrors :
    /\ calls[i].pc = "sent"
    /\ calls' = [calls EXCEPT ![i] = rejected(calls[i], err)]
    /\ UNCHANGED <<config, givenToken, token, completed, requestCount>>

Next ==
  \/ requestAuthKey
  \/ verifyAuthKey
  \/ purchaseRequest
  \/ purchaseConfirm
  \/ refund
  \/ Dispatch
  \/ Respond
  \/ Fail

Spec == Init /\ [][Next]_vars

(***************************************************************************)
(* Properties                                                              *)
(***************************************************************************)

\* The step starts a new invocation; NewCall is its record.
StartsCall == Len(calls') = Len(calls) + 1

NewCall == calls'[Len(calls')]

\* The invocation whose response arrived most recently.
LastDone == calls[completed[Len(completed)]]

\* C1: a payment operation called while the token is absent (undefined or empty) ends
\* with the not-authenticated error and hands nothing to the network: the request
\* count is unchanged by the call and the invocation never sends later.
C1_NoTokenRejectsBeforeNetwork ==
  /\ [](\A i \in 1..Len(calls) :
          calls[i].error = NotAuthenticated =>
            /\ calls[i].op \in PaymentOps
            /\ calls[i].pc = "rejected"
            /\ calls[i].attempts = 0)
  /\ [][(StartsCall /\ NewCall.op \in PaymentOps /\ ~Truthy(token)) =>
          /\ NewCall.pc = "rejected"
          /\ NewCall.error = NotAuthenticated
          /\ requestCount' = requestCount]_vars

\* C1 witness: a payment call was rejected on a client without a token after another
\* request had already gone out, and the count still shows that one request only.
C1_Witness ==
  /\ givenToken = Undefined
  /\ Len(calls) = 2
  /\ calls[1].op = "requestAuthKey" /\ calls[1].pc = "sent"
  /\ calls[2].op = "refund" /\ calls[2].error = NotAuthenticated
  /\ requestCount = 1

\* C2 (as stated): right after a verifyAuthKey response that contains a key field,
\* getToken() is the value of that field, for every value of the field.
C2_AnyKeyFieldStored ==
  (/\ completed # <<>>
   /\ LastDone.op = "verifyAuthKey"
   /\ LastDone.response.body = "object"
   /\ LastDone.response.key # Undefined) => getToken = LastDone.response.key

\* C2 (amended): right after a verifyAuthKey response whose key field is a non-empty
\* string, getToken() is exactly that string, whatever the token was before.
C2_NonEmptyKeyStored ==
  (/\ completed # <<>>
   /\ LastDone.op = "verifyAuthKey"
   /\ LastDone.response.body = "object"
   /\ LastDone.response.key \notin {Undefined, ""}) => getToken = LastDone.response.key

\* C2 witness: a client constructed with token t1 received key t2 and now holds t2.
C2_Witness ==
  /\ givenToken = "t1"
  /\ completed # <<>>
  /\ LastDone.op = "verifyAuthKey"
  /\ LastDone.response = [body |-> "object", key |-> "t2"]
  /\ getToken = "t2"

\* C3: the step that completes a verifyAuthKey whose response has no key field (null,
\* a text body, or an object without key) leaves the token as it was and returns the
\* whole response to the caller.
C3_NoKeyLeavesToken ==
  [][\A i \in 1..Len(calls) :
       (/\ calls[i].op = "verifyAuthKey"
        /\ calls[i].pc = "sent"
        /\ calls'[i].pc = "resolved"
        /\ (calls'[i].response.body # "object" \/ calls'[i].response.key = Undefined)) =>
         /\ token' = token
         /\ calls'[i].result = calls'[i].response]_vars

\* C3 witness: a verifyAuthKey got an object without key while a token was held.
C3_Witness ==
  /\ completed # <<>>
  /\ LastDone.op = "verifyAuthKey"
  /\ LastDone.response = [body |-> "object", key |-> Undefined]
  /\ LastDone.result = LastDone.response
  /\ token = "t1"
  /\ givenToken = "t1"

\* C4: when the pre-request hook runs for a request of any operation, the request
\* gets Authorization "Bearer <token>" for the token stored at that moment if one is
\* held, and no Authorization header otherwise; the fixed headers stay.
C4_HookAttachesCurrentToken ==
  [][\A i \in 1..Len(calls) :
       (calls[i].pc = "pending" /\ calls'[i].pc = "sent") =>
         /\ calls'[i].headers.Authorization =
              (IF token \in {Undefined, ""} THEN Undefined ELSE "Bearer " \o token)
         /\ calls'[i].headers.ContentType = "application/json"
         /\ calls'[i].headers.Accept = "application/json"
         /\ calls'[i].headers.xChannel = "merchant"]_vars

\* C4 witness: a verifyAuthKey went out without Authorization, brought key t2, and a
\* later requestAuthKey carries Bearer t2.
C4_Witness ==
  /\ Len(calls) = 2
  /\ calls[1].op = "verifyAuthKey" /\ calls[1].pc = "resolved"
  /\ calls[1].headers.Authorization = Undefined
  /\ calls[1].response.key = "t2"
  /\ calls[2].op = "requestAuthKey" /\ calls[2].pc = "sent"
  /\ calls[2].headers.Authorization = "Bearer t2"

\* C5 (as stated): whatever string is given as token at construction, no payment
\* operation is stopped by the auth guard.
C5_AnyGivenTokenPasses ==
  givenToken # Undefined =>
    \A i \in 1..Len(calls) : calls[i].error # NotAuthenticated

\* C5 (amended): on a client constructed with a non-empty token, every payment
\* operation passes the auth guard and posts to its fixed path.
C5_NonEmptyGivenTokenPasses ==
  givenToken \notin {Undefined, ""} =>
    \A i \in 1..Len(calls) :
      calls[i].op \in PaymentOps =>
        /\ calls[i].error # NotAuthenticated
        /\ calls[i].method = "POST"
        /\ calls[i].op = "purchaseRequest" => calls[i].url = "/api/v1/merchant/p2mcl"
        /\ calls[i].op = "purchaseConfirm" =>
             calls[i].url = "/api/v1/merchant/p2mcl/confirm"
        /\ calls[i].op = "refund" => calls[i].url = "/api/v1/merchant/p2mcl/refund"
        /\ calls[i].body = calls[i].arg

\* C5 witness: constructed with t1, no verifyAuthKey ever called, and a purchaseRequest
\* and a refund are both on the network.
C5_Witness ==
  /\ givenToken = "t1"
  /\ Len(calls) = 2
  /\ calls[1].op = "purchaseRequest" /\ calls[1].pc = "sent"
  /\ calls[2].op = "refund" /\ calls[2].pc = "sent"
  /\ requestCount = 2

\* C6: requestAuthKey and verifyAuthKey never fail with not-authenticated; each is a
\* POST to its path, requestAuthKey with the constructor's phone and short code and
\* verifyAuthKey with the payload it was given.
C6_AuthOpsUnguarded ==
  \A i \in 1..Len(calls) :
    calls[i].op \in AuthOps =>
      /\ calls[i].error # NotAuthenticated
      /\ calls[i].method = "POST"
      /\ calls[i].op = "requestAuthKey" =>
           /\ calls[i].url = "/api/v1/request/key"
           /\ calls[i].body = [phone |-> Phone, short_code |-> ShortCode]
      /\ calls[i].op = "verifyAuthKey" =>
           /\ calls[i].url = "/api/v1/verify/key"
           /\ calls[i].body = calls[i].arg

\* C6 witness: with no token held, a requestAuthKey and a verifyAuthKey are both on
\* the network, neither with an Authorization header.
C6_Witness ==
  /\ ~Truthy(token)
  /\ Len(calls) = 2
  /\ calls[1].op = "requestAuthKey" /\ calls[1].pc = "sent"
  /\ calls[2].op = "verifyAuthKey" /\ calls[2].pc = "sent"
  /\ calls[1].headers.Authorization = Undefined
  /\ calls[2].headers.Authorization = Undefined

\* The key of the latest of the first n responses that is a verifyAuthKey response
\* with a non-empty key; the constructor's token when there is none.
RECURSIVE LastWrittenKey(_)
LastWrittenKey(n) ==
  IF n = 0 THEN givenToken
  ELSE LET c == calls[completed[n]]
       IN IF c.op = "verifyAuthKey" /\ c.response.body = "object"
               /\ c.response.key \notin {Undefined, ""}
            THEN c.response.key
            ELSE LastWrittenKey(n - 1)

\* C7: in every state the token is the key of the most recently completed
\* token-carrying verifyAuthKey response, or the constructor's value if there is none,
\* whatever the order in which the calls were started.
C7_LastWriteWins == getToken = LastWrittenKey(Len(completed))

\* C7 witness: two verifyAuthKey calls, the one started first answered last; the
\* token is the key of the first call.
C7_Witness ==
  /\ Len(calls) = 2
  /\ calls[1].op = "verifyAuthKey" /\ calls[2].op = "verifyAuthKey"
  /\ completed = <<2, 1>>
  /\ calls[1].response.key = "t1"
  /\ calls[2].response.key = "t2"
  /\ getToken = "t1"

\* C8: every invocation hands at most one request to the network: none when the auth
\* guard rejected it, exactly one once it was dispatched; an invocation whose request
\* failed ends with exactly the transport's error; the request count is the number of
\* dispatched invocations.
C8_OneRequestNoRetry ==
  /\ \A i \in 1..Len(calls) :
       /\ calls[i].attempts \in {0, 1}
       /\ calls[i].attempts = 1 <=> calls[i].pc \in {"sent", "resolved"}
                                      \/ calls[i].failure # NoError
       /\ calls[i].failure # NoError =>
            /\ calls[i].pc = "rejected"
            /\ calls[i].error = calls[i].failure
            /\ calls[i].failure \in TransportErrors
       /\ calls[i].error \notin {NoError, NotAuthenticated} =>
            calls[i].failure = calls[i].error
  /\ requestCount = Cardinality({i \in 1..Len(calls) : calls[i].attempts = 1})

\* C8 witness: a verifyAuthKey failed with a network error and a refund with a
\* non-2xx status; two requests went out in all.
C8_Witness ==
  /\ Len(calls) = 2
  /\ calls[1].op = "verifyAuthKey" /\ calls[1].error = "NetworkError"
  /\ calls[2].op = "refund" /\ calls[2].error = "HttpStatusError"
  /\ requestCount = 2

\* C9: once a non-empty token is held, a non-empty token is held in every later
\* state; and after a payment operation passed the auth guard no later payment
\* operation fails with not-authenticated.
C9_TokenNeverLost ==
  /\ [][token \notin {Undefined, ""} => token' \notin {Undefined, ""}]_vars
  /\ [](\A i, j \in 1..Len(calls) :
          (/\ i < j
           /\ calls[i].op \in PaymentOps
           /\ calls[j].op \in PaymentOps
           /\ calls[i].error # NotAuthenticated) => calls[j].error # NotAuthenticated)

\* C9 witness: a token is held after a verifyAuthKey response with an empty key and
\* a failed call.
C9_Witness ==
  /\ token = "t1"
  /\ \E i \in 1..Len(calls) :
       /\ calls[i].op = "verifyAuthKey"
       /\ calls[i].pc = "resolved"
       /\ calls[i].response.key = ""
  /\ \E j \in 1..Len(calls) : calls[j].failure = "MalformedJsonError"

\* C10: every payment request handed to the network carries Authorization
\* "Bearer <t>" for a non-empty t, and t is the token stored when the hook ran.
C10_PaymentAlwaysAuthorized ==
  /\ [](\A i \in 1..Len(calls) :
          (calls[i].op \in PaymentOps /\ calls[i].attempts > 0) =>
            calls[i].headers.Authorization \in {"Bearer t1", "Bearer t2"})
  /\ [][\A i \in 1..Len(calls) :
          (/\ calls[i].op \in PaymentOps
           /\ calls[i].pc = "pending"
           /\ calls'[i].pc = "sent") =>
            /\ token \notin {Undefined, ""}
            /\ calls'[i].headers.Authorization = "Bearer " \o token]_vars

\* C10 witness: a purchase passed the guard under token t1, a verifyAuthKey started
\* after it brought t2 before the purchase's hook ran, and the purchase carries t2.
C10_Witness ==
  /\ givenToken = "t1"
  /\ Len(calls) = 2
  /\ calls[1].op = "purchaseConfirm" /\ calls[1].pc = "sent"
  /\ calls[2].op = "verifyAuthKey" /\ calls[2].pc = "resolved"
  /\ calls[2].response.key = "t2"
  /\ calls[1].headers.Authorization = "Bearer t2"

====
